---- MODULE Spec2Model ----
(***************************************************************************)
(* LifeLink Health Monitor, Web-Server: the threshold alerting pipeline.   *)
(*   models/SensorData.js  checkEmergencyConditions (Threshold Evaluator)  *)
(*   routes/data.js        POST /api/data/sensor    (ingestion, recorder)  *)
(*   models/Alert.js       acknowledge / resolve / markAsFalsePositive /   *)
(*                         escalate / needsEscalation / pre('save')        *)
(*   routes/alerts.js      PUT /:alertId/{acknowledge,resolve,             *)
(*                         false-positive}          (Lifecycle Manager)    *)
(*                                                                         *)
(* Conventions.  An optional value (a field that may be undefined) is a    *)
(* sequence: <<>> when absent, <<v>> when present.  Times are in           *)
(* milliseconds, as Date.now() gives them.  Temperatures are in tenths of  *)
(* a degree Celsius (35.5 is 355).  A string of free text is a sequence of *)
(* tokens, '' being <<>>.                                                  *)
(***************************************************************************)
EXTENDS Integers, Sequences, FiniteSets, TLC

VARIABLES
  now,        \* Date.now(), ms
  alerts,     \* the alerts collection: sequence of Alert documents, _id = index
  readings,   \* the sensor_data collection: sequence of SensorData documents
  devStatus,  \* Device.status of every registered device
  resp,       \* the response of the request handled last
  inflight,   \* lifecycle requests between their findById and their save
  poll,       \* the last needsEscalation() call: what it read and returned
  inbox,      \* the request waiting to be handled (runs of one request)
  devOwner,   \* Device.owner of every registered device
  account,    \* the User document of the account that logs in
  logins,     \* login requests between their findOne and their update
  events      \* what the ingestion request handled last did, in order

vars == <<now, alerts, readings, devStatus, resp, inflight, poll, inbox,
          devOwner, account, logins, events>>

(***************************************************************************)
(* Bounds of the model.                                                    *)
(***************************************************************************)
MaxAlerts == 1      \* alerts the collection may hold (and readings stored)
MaxNotes == 1       \* length of response.notes from which no request appends more
MaxInflight == 2    \* lifecycle requests in flight at once
MaxReadings == 2    \* readings a run of repeated ingestion stores

(***************************************************************************)
(* Program constants.                                                      *)
(***************************************************************************)
MsPerSecond == 1000
MsPerMinute == 60000

HeartRateLow == 50
HeartRateHigh == 120
HeartRateCriticalLow == 40
HeartRateCriticalHigh == 140
SpO2Low == 95
SpO2CriticalLow == 90
TemperatureLow == 355
TemperatureHigh == 385
TemperatureCriticalLow == 350
TemperatureCriticalHigh == 400
BatteryLow == 10
BatteryCriticalLow == 5

HeartRateMin == 0
HeartRateMax == 300
SpO2Min == 0
SpO2Max == 100
TemperatureMin == 300
TemperatureMax == 450
BatteryMin == 0
BatteryMax == 100
LatitudeMin == -90
LatitudeMax == 90
LongitudeMin == -180
LongitudeMax == 180

DefaultMaxEscalationLevel == 3
DefaultEscalationLevel == 1

(***************************************************************************)
(* The environment: registered devices and users.                          *)
(***************************************************************************)
Devices == {"d1", "d2"}
Users == {"admin", "u1", "u2"}

Role(user) == IF user = "admin" THEN "admin" ELSE "user"

UserDevices(user) ==
  CASE user = "u1" -> {"d1"}
    [] user = "u2" -> {"d2"}
    [] OTHER -> {}

\* Device.configuration.alertThresholds: d1 as the schema defaults leave it,
\* d2 registered with thresholds of its own
AlertThresholds(device) ==
  IF device = "d2"
  THEN [heartRate |-> [min |-> 40, max |-> 130],
        spO2 |-> [min |-> 92],
        temperature |-> [min |-> 350, max |-> 390],
        batteryLevel |-> [min |-> 15]]
  ELSE [heartRate |-> [min |-> 50, max |-> 120],
        spO2 |-> [min |-> 95],
        temperature |-> [min |-> 355, max |-> 385],
        batteryLevel |-> [min |-> 15]]

\* Device.owner as the devices were registered
RegisteredOwner ==
  [fullName |-> "Asha Rao", age |-> 71,
   emergencyContact |-> [name |-> "Ravi", phone |-> "555-0101"],
   medicalConditions |-> <<"diabetes">>,
   medications |-> << [name |-> "metformin", dosage |-> "500mg"] >>,
   hospitalContact |-> [name |-> "City Hospital", phone |-> "555-0199"]]

\* the channels of Alert.notifications
Channels == {"email", "sms", "push", "webhook"}

Truthy(opt) == opt # <<>> /\ opt[1] # 0

(***************************************************************************)
(* Threshold Evaluator: SensorData.checkEmergencyConditions.               *)
(* A SensorData document is                                                *)
(*   [deviceId, timestamp, heartRate, spO2, bodyTemperature,               *)
(*    fallDetected, batteryLevel]                                          *)
(* with the four sensor values optional.  The guards of the code are       *)
(* JavaScript truthiness tests (this.heartRate.value && ...), so a value   *)
(* of 0 is treated like an absent one.                                     *)
(***************************************************************************)
Num(n) == [kind |-> "number", n |-> n]
Bool(b) == [kind |-> "boolean", n |-> IF b THEN 1 ELSE 0]

\* (mutant) the heart-rate thresholds taken as exclusive bounds
HeartRateRule_Inclusive(doc) ==
  IF Truthy(doc.heartRate)
     /\ (doc.heartRate[1] <= HeartRateLow \/ doc.heartRate[1] >= HeartRateHigh)
  THEN << [type |-> "heart_rate_abnormal",
           severity |-> IF doc.heartRate[1] < HeartRateCriticalLow
                           \/ doc.heartRate[1] > HeartRateCriticalHigh
                        THEN "critical" ELSE "warning",
           value |-> Num(doc.heartRate[1]),
           message |-> IF doc.heartRate[1] < HeartRateLow
                       THEN "too low" ELSE "too high"] >>
  ELSE << >>

HeartRateRule(doc) ==
  IF Truthy(doc.heartRate)
     /\ (doc.heartRate[1] < HeartRateLow \/ doc.heartRate[1] > HeartRateHigh)
  THEN << [type |-> "heart_rate_abnormal",
           severity |-> IF doc.heartRate[1] < HeartRateCriticalLow
                           \/ doc.heartRate[1] > HeartRateCriticalHigh
                        THEN "critical" ELSE "warning",
           value |-> Num(doc.heartRate[1]),
           message |-> IF doc.heartRate[1] < HeartRateLow
                       THEN "too low" ELSE "too high"] >>
  ELSE << >>

SpO2Rule(doc) ==
  IF Truthy(doc.spO2) /\ doc.spO2[1] < SpO2Low
  THEN << [type |-> "spo2_low",
           severity |-> IF doc.spO2[1] < SpO2CriticalLow
                        THEN "critical" ELSE "warning",
           value |-> Num(doc.spO2[1]),
           message |-> "dangerously low"] >>
  ELSE << >>

TemperatureRule(doc) ==
  IF Truthy(doc.bodyTemperature)
     /\ (doc.bodyTemperature[1] > TemperatureHigh
         \/ doc.bodyTemperature[1] < TemperatureLow)
  THEN << [type |-> "temperature_abnormal",
           severity |-> IF doc.bodyTemperature[1] > TemperatureCriticalHigh
                           \/ doc.bodyTemperature[1] < TemperatureCriticalLow
                        THEN "critical" ELSE "warning",
           value |-> Num(doc.bodyTemperature[1]),
           message |-> IF doc.bodyTemperature[1] > TemperatureHigh
                       THEN "too high" ELSE "too low"] >>
  ELSE << >>

\* (mutant) a fall classified as a warning
FallRule_Warning(doc) ==
  IF doc.fallDetected
  THEN << [type |-> "fall_detected", severity |-> "warning",
           value |-> Bool(TRUE), message |-> "fall detected"] >>
  ELSE << >>

FallRule(doc) ==
  IF doc.fallDetected
  THEN << [type |-> "fall_detected", severity |-> "critical",
           value |-> Bool(TRUE), message |-> "fall detected"] >>
  ELSE << >>

\* (mutant) the battery rule silenced by an abnormal heart rate
BatteryRule_UnlessHeartRate(doc) ==
  IF Truthy(doc.batteryLevel) /\ doc.batteryLevel[1] < BatteryLow
     /\ HeartRateRule(doc) = << >>
  THEN << [type |-> "battery_low",
           severity |-> IF doc.batteryLevel[1] < BatteryCriticalLow
                        THEN "critical" ELSE "warning",
           value |-> Num(doc.batteryLevel[1]),
           message |-> "critically low"] >>
  ELSE << >>

BatteryRule(doc) ==
  IF Truthy(doc.batteryLevel) /\ doc.batteryLevel[1] < BatteryLow
  THEN << [type |-> "battery_low",
           severity |-> IF doc.batteryLevel[1] < BatteryCriticalLow
                        THEN "critical" ELSE "warning",
           value |-> Num(doc.batteryLevel[1]),
           message |-> "critically low"] >>
  ELSE << >>

checkEmergencyConditions(doc) ==
  HeartRateRule(doc) \o SpO2Rule(doc) \o TemperatureRule(doc)
    \o FallRule(doc) \o BatteryRule(doc)

(***************************************************************************)
(* Alert documents.  pre('save') seeds the escalation rules of a new       *)
(* document from its severity; the schema defaults give status, level and  *)
(* maxEscalationLevel.  An escalation rule is <<level, timeThreshold>>,    *)
(* the threshold in minutes.                                               *)
(***************************************************************************)
\* (mutant) every severity seeded as the default case of the switch
preSaveRules_DefaultCase(severity) == << <<1, 0>>, <<2, 60>> >>

preSaveRules(severity) ==
  CASE severity = "emergency" -> << <<1, 0>>, <<2, 2>>, <<3, 5>> >>
    [] severity = "critical" -> << <<1, 0>>, <<2, 5>>, <<3, 15>> >>
    [] severity = "warning" -> << <<1, 0>>, <<2, 15>>, <<3, 60>> >>
    [] OTHER -> << <<1, 0>>, <<2, 60>> >>

preSaveMaxLevel(severity) ==
  IF severity \in {"emergency", "critical", "warning"}
  THEN DefaultMaxEscalationLevel
  ELSE 2

\* getDeviceContext: the owner's data as the alert stores it
getDeviceContext(owner) ==
  [patientName |-> owner.fullName,
   patientAge |-> owner.age,
   emergencyContact |-> owner.emergencyContact,
   medicalHistory |-> owner.medicalConditions,
   currentMedications |->
     [i \in DOMAIN owner.medications |-> owner.medications[i].name],
   doctorContact |-> owner.hospitalContact]

\* new Alert({...}) in POST /sensor followed by its first save
NewAlert(sensorData, sensorDataId, emergency, t) ==
  [deviceId |-> sensorData.deviceId,
   type |-> emergency.type,
   severity |-> emergency.severity,
   message |-> emergency.message,
   value |-> emergency.value,
   sensorData |-> sensorDataId,
   context |-> getDeviceContext(devOwner[sensorData.deviceId]),
   status |-> "active",
   createdAt |-> t,
   acknowledgedBy |-> << >>,
   acknowledgedAt |-> << >>,
   resolvedBy |-> << >>,
   resolvedAt |-> << >>,
   responseTime |-> << >>,
   notes |-> << >>,
   level |-> DefaultEscalationLevel,
   escalatedAt |-> << >>,
   escalationRules |-> preSaveRules(emergency.severity),
   maxEscalationLevel |-> preSaveMaxLevel(emergency.severity),
   sent |-> [c \in Channels |-> FALSE],
   attempts |-> [c \in Channels |-> 0]]

\* sendAlertNotifications writes the alert to the log and returns true: the
\* document it is given is left as it is
sendAlertNotifications(alert, device) == alert

(***************************************************************************)
(* The instance methods of Alert.js, each up to (not including) its        *)
(* this.save(): they act on the document the caller loaded.                *)
(***************************************************************************)
\* (mutant) an acknowledge that also escalates
acknowledge_Escalates(alert, acknowledgedBy, notes, t) ==
  [alert EXCEPT
     !.status = "acknowledged",
     !.acknowledgedBy = <<acknowledgedBy>>,
     !.acknowledgedAt = <<t>>,
     !.responseTime = <<(t - alert.createdAt) \div MsPerSecond>>,
     !.notes = IF notes # << >> THEN notes ELSE @,
     !.level = @ + 1,
     !.escalatedAt = <<t>>]

acknowledge(alert, acknowledgedBy, notes, t) ==
  [alert EXCEPT
     !.status = "acknowledged",
     !.acknowledgedBy = <<acknowledgedBy>>,
     !.acknowledgedAt = <<t>>,
     !.responseTime = <<(t - alert.createdAt) \div MsPerSecond>>,
     !.notes = IF notes # << >> THEN notes ELSE @]

resolve(alert, resolvedBy, notes, t) ==
  [alert EXCEPT
     !.status = "resolved",
     !.resolvedBy = <<resolvedBy>>,
     !.resolvedAt = <<t>>,
     !.notes = IF notes # << >> THEN @ \o <<"\n">> \o notes ELSE @]

\* (mutant) a false positive downgraded to severity info
markAsFalsePositive_Downgrades(alert, markedBy, notes, t) ==
  [alert EXCEPT
     !.status = "false_positive",
     !.severity = "info",
     !.resolvedBy = <<markedBy>>,
     !.resolvedAt = <<t>>,
     !.notes = @ \o <<"\nMarked as false positive: ">> \o notes]

markAsFalsePositive(alert, markedBy, notes, t) ==
  [alert EXCEPT
     !.status = "false_positive",
     !.resolvedBy = <<markedBy>>,
     !.resolvedAt = <<t>>,
     !.notes = @ \o <<"\nMarked as false positive: ">> \o notes]

\* (mutant) escalate without the test against maxEscalationLevel
escalate_NoCap(alert, t) ==
  [alert EXCEPT !.level = @ + 1, !.escalatedAt = <<t>>]

escalate(alert, t) ==
  IF alert.level < alert.maxEscalationLevel
  THEN [alert EXCEPT !.level = @ + 1, !.escalatedAt = <<t>>]
  ELSE alert

ageInMinutes(alert, t) == (t - alert.createdAt) \div MsPerMinute

\* Array.prototype.find: the first rule of the wanted level, if any
FindRule(rules, level) ==
  LET hits == {i \in 1..Len(rules) : rules[i][1] = level}
  IN IF hits = {} THEN << >>
     ELSE << rules[CHOOSE i \in hits : \A j \in hits : i <= j] >>

\* (mutant) needsEscalation without the test of the status
needsEscalation_AnyStatus(alert, t) ==
  LET escalationRule == FindRule(alert.escalationRules, alert.level + 1)
  IN IF escalationRule = << >> THEN FALSE
     ELSE ageInMinutes(alert, t) >= escalationRule[1][2]

needsEscalation(alert, t) ==
  IF alert.status # "active" THEN FALSE
  ELSE LET escalationRule == FindRule(alert.escalationRules, alert.level + 1)
       IN IF escalationRule = << >> THEN FALSE
          ELSE ageInMinutes(alert, t) >= escalationRule[1][2]

(***************************************************************************)
(* Document.save() of an already stored document writes the paths the      *)
(* caller modified since it loaded the document, and nothing else: the     *)
(* stored document keeps what another writer put in the other paths.       *)
(***************************************************************************)
\* (mutant) a save that writes the whole document back
Save_WholeDocument(stored, loaded, local) == local

\* (mutant) a save that gives way when the stored document has changed
Save_CompareAndSwap(stored, loaded, local) ==
  IF stored = loaded THEN local ELSE stored

Save(stored, loaded, local) ==
  [f \in DOMAIN stored |->
     IF local[f] # loaded[f] THEN local[f] ELSE stored[f]]

(***************************************************************************)
(* Ingestion: POST /api/data/sensor for a device the apiKey middleware     *)
(* has authenticated (req.device).  A request body is                      *)
(*   [deviceId, heartRate, spO2, bodyTemperature, batteryLevel, latitude,  *)
(*    longitude: optional, fallDetected: BOOLEAN]                          *)
(* with latitude and longitude in whole degrees.                           *)
(***************************************************************************)
\* (mutant) the bounds themselves rejected
InRange_Exclusive(opt, lo, hi) == opt = << >> \/ (opt[1] > lo /\ opt[1] < hi)

InRange(opt, lo, hi) == opt = << >> \/ (opt[1] >= lo /\ opt[1] <= hi)

\* sensorDataValidation: the fields express-validator reports
ValidationErrors(body) ==
  {f \in {"deviceId", "heartRate.value", "spO2.value",
          "bodyTemperature.value", "location.latitude",
          "location.longitude", "device.batteryLevel"} :
     CASE f = "deviceId" -> body.deviceId = << >>
       [] f = "heartRate.value" ->
            ~InRange(body.heartRate, HeartRateMin, HeartRateMax)
       [] f = "spO2.value" -> ~InRange(body.spO2, SpO2Min, SpO2Max)
       [] f = "bodyTemperature.value" ->
            ~InRange(body.bodyTemperature, TemperatureMin, TemperatureMax)
       [] f = "location.latitude" ->
            ~InRange(body.latitude, LatitudeMin, LatitudeMax)
       [] f = "location.longitude" ->
            ~InRange(body.longitude, LongitudeMin, LongitudeMax)
       [] OTHER -> ~InRange(body.batteryLevel, BatteryMin, BatteryMax)}

\* (mutant) the body's deviceId kept when it has one
NewSensorData_BodyDeviceId(device, body, t) ==
  [deviceId |-> IF body.deviceId # << >> THEN body.deviceId[1] ELSE device,
   timestamp |-> t,
   heartRate |-> body.heartRate,
   spO2 |-> body.spO2,
   bodyTemperature |-> body.bodyTemperature,
   fallDetected |-> body.fallDetected,
   batteryLevel |-> body.batteryLevel,
   latitude |-> body.latitude,
   longitude |-> body.longitude]

\* new SensorData({...req.body, deviceId: req.device.deviceId, timestamp})
NewSensorData(device, body, t) ==
  [deviceId |-> device,
   timestamp |-> t,
   heartRate |-> body.heartRate,
   spO2 |-> body.spO2,
   bodyTemperature |-> body.bodyTemperature,
   fallDetected |-> body.fallDetected,
   batteryLevel |-> body.batteryLevel,
   latitude |-> body.latitude,
   longitude |-> body.longitude]

\* Device.updateStatus
updateStatus(status, body, t) ==
  [status EXCEPT
     !.lastSeen = <<t>>,
     !.isOnline = TRUE,
     !.batteryLevel = IF body.batteryLevel # << >> THEN body.batteryLevel ELSE @,
     !.location = IF body.latitude # << >> \/ body.longitude # << >>
                  THEN << [latitude |-> body.latitude,
                           longitude |-> body.longitude, lastUpdated |-> t] >>
                  ELSE @]

\* (mutant) a loop that skips an emergency while the device has an active
\* alert of the same type
AlertsFor_Dedup(sensorData, sensorDataId, emergencies, t) ==
  LET Fresh(emergency) ==
        \A i \in DOMAIN alerts :
          ~(/\ alerts[i].deviceId = sensorData.deviceId
            /\ alerts[i].type = emergency.type
            /\ alerts[i].status = "active")
      kept == SelectSeq(emergencies, Fresh)
  IN [i \in 1..Len(kept) |->
        sendAlertNotifications(
          NewAlert(sensorData, sensorDataId, kept[i], t), sensorData.deviceId)]

\* (mutant) a loop that stops after its first alert
AlertsFor_FirstOnly(sensorData, sensorDataId, emergencies, t) ==
  [i \in 1..(IF emergencies = << >> THEN 0 ELSE 1) |->
     sendAlertNotifications(
       NewAlert(sensorData, sensorDataId, emergencies[i], t),
       sensorData.deviceId)]

\* the alerts the loop over the emergencies creates, in the evaluator's order
AlertsFor(sensorData, sensorDataId, emergencies, t) ==
  [i \in 1..Len(emergencies) |->
     sendAlertNotifications(
       NewAlert(sensorData, sensorDataId, emergencies[i], t),
       sensorData.deviceId)]

Event(what, id) == [what |-> what, id |-> id]

\* (mutant) an alert broadcast before it is saved
AlertEvents_BroadcastFirst(alertId) ==
  << Event("broadcastAlert", alertId), Event("alert.save", alertId),
     Event("sendAlertNotifications", alertId) >>

\* one turn of the loop over the emergencies, for the alert it creates
AlertEvents(alertId) ==
  << Event("alert.save", alertId), Event("broadcastAlert", alertId),
     Event("sendAlertNotifications", alertId) >>

RECURSIVE LoopEvents(_, _)
\* the turns of the loop for the alerts first .. last
LoopEvents(first, last) ==
  IF first > last THEN << >>
  ELSE AlertEvents(first) \o LoopEvents(first + 1, last)

\* what POST /sensor does, in the order of its statements, for a request that
\* passes validation and creates n alerts
SensorEvents(device, sensorDataId, firstAlertId, n) ==
  << Event("device.save", device), Event("sensorData.save", sensorDataId) >>
    \o LoopEvents(firstAlertId, firstAlertId + n - 1)
    \o << Event("broadcastSensorData", sensorDataId), Event("res.status", 201) >>

PostSensor(device, body) ==
  LET sensorData == NewSensorData(device, body, now)
      emergencies == checkEmergencyConditions(sensorData)
  IN IF ValidationErrors(body) # {}
     THEN /\ resp' = [op |-> "sensor", code |-> 400, n |-> 0,
                       details |-> ValidationErrors(body)]
          /\ events' = << Event("res.status", 400) >>
          /\ UNCHANGED <<alerts, readings, devStatus>>
     ELSE /\ devStatus' =
               [devStatus EXCEPT ![device] = updateStatus(@, body, now)]
          /\ readings' = Append(readings, sensorData)
          /\ alerts' = alerts \o AlertsFor(sensorData, Len(readings) + 1,
                                          emergencies, now)
          /\ events' = SensorEvents(device, Len(readings) + 1, Len(alerts) + 1,
                                    Len(emergencies))
          /\ resp' = [op |-> "sensor", code |-> 201, n |-> Len(emergencies)]

\* POST /sensor when the await numbered failAt throws: 1 is
\* req.device.updateStatus, 2 is sensorData.save, 2 + j is the save of the
\* j-th alert.  What the earlier awaits stored stays stored, and the catch
\* block answers 500.
PostSensorThrows(device, body, failAt) ==
  LET sensorData == NewSensorData(device, body, now)
      emergencies == checkEmergencyConditions(sensorData)
      created == AlertsFor(sensorData, Len(readings) + 1, emergencies, now)
  IN /\ ValidationErrors(body) = {}
     /\ failAt \in 1..(2 + Len(emergencies))
     /\ devStatus' = IF failAt > 1
                     THEN [devStatus EXCEPT ![device] = updateStatus(@, body, now)]
                     ELSE devStatus
     /\ readings' = IF failAt > 2 THEN Append(readings, sensorData)
                    ELSE readings
     /\ alerts' = IF failAt > 2
                  THEN alerts \o SubSeq(created, 1, failAt - 3)
                  ELSE alerts
     /\ events' =
          SubSeq(SensorEvents(device, Len(readings) + 1, Len(alerts) + 1,
                              Len(emergencies)),
                 1, IF failAt <= 2 THEN failAt - 1 ELSE 2 + 3 * (failAt - 3))
            \o << Event("res.status", 500) >>
     /\ resp' = [op |-> "sensor", code |-> 500, n |-> 0]

(***************************************************************************)
(* Alert Lifecycle Manager: the three PUT routes of routes/alerts.js.      *)
(***************************************************************************)
\* (mutant) every authenticated user may act on every alert
HasAccess_AnyUser(user, alert) == Role(user) \in {"admin", "user"}

HasAccess(user, alert) ==
  Role(user) = "admin" \/ alert.deviceId \in UserDevices(user)

\* (mutant) the acknowledge route without its status check
RouteCheck_NoStatusCheck(op, user, alertId) ==
  IF alertId \notin DOMAIN alerts THEN 404
  ELSE IF ~HasAccess(user, alerts[alertId]) THEN 403
  ELSE 200

\* (mutant) the status check of the acknowledge route in every route
RouteCheck_StatusCheckInAll(op, user, alertId) ==
  IF alertId \notin DOMAIN alerts THEN 404
  ELSE IF ~HasAccess(user, alerts[alertId]) THEN 403
  ELSE IF alerts[alertId].status # "active" THEN 400
  ELSE 200

\* the status a route answers with once it has looked the alert up and
\* checked it: 200 means it goes on to call the method
RouteCheck(op, user, alertId) ==
  IF alertId \notin DOMAIN alerts THEN 404
  ELSE IF ~HasAccess(user, alerts[alertId]) THEN 403
  ELSE IF op = "acknowledge" /\ alerts[alertId].status # "active" THEN 400
  ELSE 200

Method(op, alert, user, notes, t) ==
  CASE op = "acknowledge" -> acknowledge(alert, user, notes, t)
    [] op = "resolve" -> resolve(alert, user, notes, t)
    [] op = "false_positive" -> markAsFalsePositive(alert, user, notes, t)
    [] OTHER -> escalate(alert, t)

\* a whole route, handled without another request in between
Route(op, user, alertId, notes) ==
  LET code == RouteCheck(op, user, alertId)
  IN /\ resp' = [op |-> op, code |-> code, n |-> 0]
     /\ alerts' =
          IF code = 200
          THEN [alerts EXCEPT
                  ![alertId] = Save(@, @, Method(op, @, user, notes, now))]
          ELSE alerts

AcknowledgeRoute(user, alertId, notes) ==
  /\ Route("acknowledge", user, alertId, notes)
  /\ UNCHANGED <<now, readings, devStatus, inflight, poll, inbox,
               devOwner, account, logins, events>>

ResolveRoute(user, alertId, notes) ==
  /\ Route("resolve", user, alertId, notes)
  /\ UNCHANGED <<now, readings, devStatus, inflight, poll, inbox,
               devOwner, account, logins, events>>

FalsePositiveRoute(user, alertId, notes) ==
  /\ Route("false_positive", user, alertId, notes)
  /\ UNCHANGED <<now, readings, devStatus, inflight, poll, inbox,
               devOwner, account, logins, events>>

(***************************************************************************)
(* The inputs the runs draw from.                                          *)
(***************************************************************************)
Body(dev, hr, spo2, temp, fall, batt) ==
  [deviceId |-> dev, heartRate |-> hr, spO2 |-> spo2,
   bodyTemperature |-> temp, fallDetected |-> fall, batteryLevel |-> batt,
   latitude |-> << >>, longitude |-> << >>]

\* a body with a location
At(body, lat, lon) == [body EXCEPT !.latitude = lat, !.longitude = lon]

\* a warning, two criticals, nothing, and a rejected body
ServerBodies ==
  { Body(<<"d1">>, <<45>>, << >>, << >>, FALSE, << >>),
    Body(<<"d1">>, <<200>>, <<97>>, << >>, TRUE, <<80>>),
    Body(<<"d1">>, <<80>>, <<98>>, <<368>>, FALSE, <<60>>),
    Body(<< >>, <<80>>, << >>, << >>, FALSE, << >>) }

NotesInputs == { << >>, <<"n">> }
AlertIds == 1..(MaxAlerts + 1)
ServerInstants == {700, 2700}

\* bounds on what a run may store
RoomFor(device, body) ==
  /\ Len(readings) < MaxAlerts
  /\ Len(alerts) + Len(checkEmergencyConditions(NewSensorData(device, body, now)))
       <= MaxAlerts

NotesRoom(op, alertId, notes) ==
  IF alertId \notin DOMAIN alerts THEN TRUE
  ELSE IF op = "acknowledge" \/ (op = "resolve" /\ notes = << >>) THEN TRUE
  ELSE Len(alerts[alertId].notes) < MaxNotes

Idle == [pc |-> "idle"]

\* the account as registration leaves it
NewAccount ==
  [loginAttempts |-> 0, lockUntil |-> << >>, isActive |-> TRUE,
   lastLogin |-> << >>, loginCount |-> 0]

Init ==
  /\ now = 0
  /\ alerts = << >>
  /\ readings = << >>
  /\ devStatus = [d \in Devices |->
                    [lastSeen |-> << >>, isOnline |-> FALSE,
                     batteryLevel |-> << >>, location |-> << >>]]
  /\ resp = [op |-> "none", code |-> 0, n |-> 0]
  /\ inflight = [p \in 1..MaxInflight |-> Idle]
  /\ poll = << >>
  /\ devOwner = [d \in Devices |-> RegisteredOwner]
  /\ account = NewAccount
  /\ logins = << >>
  /\ events = << >>
  /\ inbox = << >>

Tick(instants) ==
  /\ \E t \in instants : t > now /\ now' = t
  /\ UNCHANGED <<alerts, readings, devStatus, resp, inflight, poll, inbox,
               devOwner, account, logins, events>>

Ingest ==
  \E device \in Devices, body \in ServerBodies :
    /\ RoomFor(device, body)
    /\ PostSensor(device, body)
    /\ UNCHANGED <<now, inflight, poll, inbox, devOwner, account, logins>>

Acknowledge ==
  \E user \in Users, alertId \in AlertIds, notes \in NotesInputs :
    /\ NotesRoom("acknowledge", alertId, notes)
    /\ AcknowledgeRoute(user, alertId, notes)

Resolve ==
  \E user \in Users, alertId \in AlertIds, notes \in NotesInputs :
    /\ NotesRoom("resolve", alertId, notes)
    /\ ResolveRoute(user, alertId, notes)

FalsePositive ==
  \E user \in Users, alertId \in AlertIds, notes \in NotesInputs :
    /\ NotesRoom("false_positive", alertId, notes)
    /\ FalsePositiveRoute(user, alertId, notes)

ServerTick == Tick(ServerInstants)

\* the server as wired, its requests handled one at a time
Next == Ingest \/ Acknowledge \/ Resolve \/ FalsePositive \/ ServerTick

Spec == Init /\ [][Next]_vars

(***************************************************************************)
(* Escalation.  Nothing in the server calls escalate() or                  *)
(* needsEscalation(); these runs add the external poller the methods are   *)
(* written for: it loads an alert and calls one of them.  The operator     *)
(* requests of these runs are the routes, by the admin and without notes.  *)
(***************************************************************************)
EscalateCall(alertId) ==
  /\ alertId \in DOMAIN alerts
  /\ alerts' = [alerts EXCEPT ![alertId] = Save(@, @, escalate(@, now))]
  /\ UNCHANGED <<now, readings, devStatus, resp, inflight, poll, inbox,
               devOwner, account, logins, events>>

NeedsEscalationCall(alertId) ==
  /\ alertId \in DOMAIN alerts
  /\ poll' = << [alertId |-> alertId, at |-> now,
                 result |-> needsEscalation(alerts[alertId], now)] >>
  /\ UNCHANGED <<now, alerts, readings, devStatus, resp, inflight, inbox,
               devOwner, account, logins, events>>

\* a warning and a critical
EscalationBodies ==
  { Body(<<"d1">>, <<45>>, << >>, << >>, FALSE, << >>),
    Body(<<"d1">>, <<150>>, << >>, << >>, FALSE, << >>) }

\* just before and at 5 minutes, 15 minutes, 60 minutes
EscalationInstants == {299999, 300000, 900000, 3600000}

EscalationIngest ==
  \E body \in EscalationBodies :
    /\ RoomFor("d1", body)
    /\ PostSensor("d1", body)
    /\ UNCHANGED <<now, inflight, poll, inbox, devOwner, account, logins>>

OperatorRequest ==
  \E op \in {"acknowledge", "resolve", "false_positive"},
     alertId \in DOMAIN alerts :
    /\ NotesRoom(op, alertId, << >>)
    /\ Route(op, "admin", alertId, << >>)
    /\ UNCHANGED <<now, readings, devStatus, inflight, poll, inbox,
               devOwner, account, logins, events>>

Escalate == \E alertId \in AlertIds : EscalateCall(alertId)

NeedsEscalation == \E alertId \in AlertIds : NeedsEscalationCall(alertId)

EscalationTick == Tick(EscalationInstants)

NextEscalation ==
  EscalationIngest \/ OperatorRequest \/ Escalate \/ NeedsEscalation
    \/ EscalationTick

SpecEscalation == Init /\ [][NextEscalation]_vars

(***************************************************************************)
(* The server over hours: ingestion and the routes (by the admin, without  *)
(* notes), with the clock going past the escalation thresholds.            *)
(***************************************************************************)
LongRunIngest ==
  \E device \in Devices, body \in EscalationBodies :
    /\ RoomFor(device, body)
    /\ PostSensor(device, body)
    /\ UNCHANGED <<now, inflight, poll, inbox, devOwner, account, logins>>

LongRunTick == Tick(EscalationInstants)

NextLongRun == LongRunIngest \/ OperatorRequest \/ LongRunTick

SpecLongRun == Init /\ [][NextLongRun]_vars

(***************************************************************************)
(* Interleaved requests.  A route awaits Alert.findById, then calls the    *)
(* method, which awaits this.save(): another request can run between the   *)
(* two.  Begin is a route up to the method call (findById and the checks), *)
(* Finish is the method and its save on the document Begin loaded.  The    *)
(* poller's escalate() is interleaved in the same way.  The requests of    *)
(* these runs are by the admin and without notes.                          *)
(***************************************************************************)
Begin(p, op, user, alertId, notes) ==
  LET code == IF op = "escalate"
              THEN (IF alertId \in DOMAIN alerts THEN 200 ELSE 404)
              ELSE RouteCheck(op, user, alertId)
  IN /\ inflight[p] = Idle
     /\ IF code = 200
        THEN /\ inflight' = [inflight EXCEPT ![p] =
                               [pc |-> "loaded", op |-> op, user |-> user,
                                alertId |-> alertId, notes |-> notes,
                                doc |-> alerts[alertId]]]
             /\ UNCHANGED resp
        ELSE /\ resp' = [op |-> op, code |-> code, n |-> 0]
             /\ UNCHANGED inflight
     /\ UNCHANGED <<now, alerts, readings, devStatus, poll, inbox,
               devOwner, account, logins, events>>

Finish(p) ==
  /\ inflight[p] # Idle
  /\ LET r == inflight[p]
     IN /\ alerts' = [alerts EXCEPT ![r.alertId] =
                        Save(@, r.doc, Method(r.op, r.doc, r.user, r.notes, now))]
        /\ resp' = IF r.op = "escalate" THEN resp
                   ELSE [op |-> r.op, code |-> 200, n |-> 0]
  /\ inflight' = [inflight EXCEPT ![p] = Idle]
  /\ UNCHANGED <<now, readings, devStatus, poll, inbox,
               devOwner, account, logins, events>>

ConcurrentInstants == {2700}

ConcurrentIngest ==
  \E body \in {Body(<<"d1">>, <<45>>, << >>, << >>, FALSE, << >>)} :
    /\ RoomFor("d1", body)
    /\ PostSensor("d1", body)
    /\ UNCHANGED <<now, inflight, poll, inbox, devOwner, account, logins>>

BeginRequest ==
  \E p \in DOMAIN inflight,
     op \in {"acknowledge", "resolve", "false_positive", "escalate"},
     alertId \in DOMAIN alerts :
    /\ NotesRoom(op, alertId, << >>)
    /\ Begin(p, op, "admin", alertId, << >>)

FinishRequest == \E p \in DOMAIN inflight : Finish(p)

ConcurrentTick == Tick(ConcurrentInstants)

NextConcurrent ==
  ConcurrentIngest \/ BeginRequest \/ FinishRequest \/ ConcurrentTick

SpecConcurrent == Init /\ [][NextConcurrent]_vars

(***************************************************************************)
(* Device updates: PUT /api/devices/:deviceId merges req.body.owner into   *)
(* Device.owner and saves the device.  (deviceName and configuration,      *)
(* which the route also accepts, are not part of the state here.)  These   *)
(* runs have ingestion, the owner updates, the routes by the admin and the *)
(* poller's escalate().                                                    *)
(***************************************************************************)
\* { ...device.owner, ...req.body.owner }
Merge(owner, patch) ==
  [f \in DOMAIN owner |-> IF f \in DOMAIN patch THEN patch[f] ELSE owner[f]]

PutDeviceRoute(device, patch) ==
  /\ IF device \in Devices
     THEN /\ devOwner' = [devOwner EXCEPT ![device] = Merge(@, patch)]
          /\ resp' = [op |-> "device", code |-> 200, n |-> 0]
     ELSE /\ resp' = [op |-> "device", code |-> 404, n |-> 0]
          /\ UNCHANGED devOwner
  /\ UNCHANGED <<now, alerts, readings, devStatus, inflight, poll, inbox,
                 account, logins, events>>

OwnerPatches ==
  { [fullName |-> "Asha Nair"],
    [emergencyContact |-> [name |-> "Meena", phone |-> "555-0102"]],
    [medicalConditions |-> <<"diabetes", "hypertension">>,
     medications |-> << [name |-> "insulin", dosage |-> "10u"],
                        [name |-> "metformin", dosage |-> "850mg"] >>,
     hospitalContact |-> [name |-> "Lakeside Clinic", phone |-> "555-0177"]] }

OwnerInstants == {2700}

OwnerIngest ==
  \E body \in EscalationBodies :
    /\ RoomFor("d1", body)
    /\ PostSensor("d1", body)
    /\ UNCHANGED <<now, inflight, poll, inbox, devOwner, account, logins>>

PutDevice ==
  \E device \in {"d1", "d9"}, patch \in OwnerPatches :
    PutDeviceRoute(device, patch)

OwnerTick == Tick(OwnerInstants)

NextOwner ==
  OwnerIngest \/ PutDevice \/ OperatorRequest \/ Escalate \/ OwnerTick

SpecOwner == Init /\ [][NextOwner]_vars

(***************************************************************************)
(* The alert list: GET /api/alerts.  find(query).sort({createdAt: -1})     *)
(* .skip(skip).limit(limit), then countDocuments(query), with no other     *)
(* request between the two.  The order MongoDB gives alerts of equal       *)
(* createdAt is not specified: every order is taken.                       *)
(***************************************************************************)
\* the _ids of the alerts the query selects
Matching(user, status, severity) ==
  {i \in DOMAIN alerts :
     /\ Role(user) = "admin" \/ alerts[i].deviceId \in UserDevices(user)
     /\ status = "all" \/ alerts[i].status = status
     /\ severity = "all" \/ alerts[i].severity = severity}

RECURSIVE SortedNewestFirst(_)
\* sort({createdAt: -1}): the orders of the ids, newest first
SortedNewestFirst(ids) ==
  IF ids = {} THEN { << >> }
  ELSE LET newest == {i \in ids :
                        \A j \in ids : alerts[i].createdAt >= alerts[j].createdAt}
       IN UNION { { <<i>> \o rest : rest \in SortedNewestFirst(ids \ {i}) } :
                  i \in newest }

\* (mutant) the page number taken as the number of pages to skip
Skip_WholePages(page, limit) == page * limit

Skip(page, limit) == (page - 1) * limit

\* Math.ceil(totalCount / limit)
CeilDiv(n, d) == (n + d - 1) \div d

Min(a, b) == IF a < b THEN a ELSE b

ListRoute(user, status, severity, page, limit, sorted) ==
  LET skip == Skip(page, limit)
      found == SubSeq(sorted, skip + 1, Min(skip + limit, Len(sorted)))
      totalCount == Cardinality(Matching(user, status, severity))
  IN /\ sorted \in SortedNewestFirst(Matching(user, status, severity))
     /\ resp' = [op |-> "list", code |-> 200, n |-> 0,
                 query |-> [user |-> user, status |-> status,
                            severity |-> severity, page |-> page,
                            limit |-> limit],
                 alerts |-> found,
                 pagination |->
                   [currentPage |-> page,
                    totalPages |-> CeilDiv(totalCount, limit),
                    totalCount |-> totalCount,
                    hasNext |-> skip + Len(found) < totalCount,
                    hasPrev |-> page > 1]]
     /\ UNCHANGED <<now, alerts, readings, devStatus, inflight, poll,
                    devOwner, account, logins, events>>

\* a warning, and two criticals created in the same millisecond
ListBodies ==
  { Body(<<"d1">>, <<45>>, << >>, << >>, FALSE, << >>),
    Body(<<"d1">>, <<200>>, <<97>>, << >>, TRUE, <<80>>) }

ListInstants == {700}
Pages == 1..3
Limits == 1..2

ListIngest ==
  \E device \in Devices, body \in ListBodies :
    /\ Len(readings) < MaxReadings
    /\ PostSensor(device, body)
    /\ UNCHANGED <<now, inflight, poll, inbox, devOwner, account, logins>>

ListResolve ==
  \E alertId \in DOMAIN alerts :
    /\ alerts[alertId].status = "active"
    /\ ResolveRoute("admin", alertId, << >>)

\* the list request of the run, arriving at any moment of it
ListQueries ==
  {[user |-> user, status |-> status, severity |-> severity,
    page |-> page, limit |-> limit] :
     user \in {"admin", "u2"}, status \in {"all", "active"},
     severity \in {"all", "critical"}, page \in Pages, limit \in Limits}

InitList ==
  /\ now = 0
  /\ alerts = << >>
  /\ readings = << >>
  /\ devStatus = [d \in Devices |->
                    [lastSeen |-> << >>, isOnline |-> FALSE,
                     batteryLevel |-> << >>, location |-> << >>]]
  /\ resp = [op |-> "none", code |-> 0, n |-> 0]
  /\ inflight = [p \in 1..MaxInflight |-> Idle]
  /\ poll = << >>
  /\ devOwner = [d \in Devices |-> RegisteredOwner]
  /\ account = NewAccount
  /\ logins = << >>
  /\ events = << >>
  /\ inbox \in {<<q>> : q \in ListQueries}

ListAlerts ==
  /\ inbox # << >>
  /\ LET q == inbox[1]
     IN \E sorted \in SortedNewestFirst(Matching(q.user, q.status, q.severity)) :
          ListRoute(q.user, q.status, q.severity, q.page, q.limit, sorted)
  /\ inbox' = << >>

ListTick == Tick(ListInstants)

NextList == ListIngest \/ ListResolve \/ ListAlerts \/ ListTick

SpecList == InitList /\ [][NextList]_vars

(***************************************************************************)
(* Repeated ingestion: the devices send reading after reading, while the   *)
(* admin resolves some of the alerts.                                      *)
(***************************************************************************)
\* a warning, two criticals, and nothing
RepeatBodies ==
  { Body(<<"d1">>, <<45>>, << >>, << >>, FALSE, << >>),
    Body(<<"d1">>, <<200>>, <<97>>, << >>, TRUE, <<80>>),
    Body(<<"d1">>, <<80>>, <<98>>, <<368>>, FALSE, <<60>>) }

RepeatInstants == {700}

RepeatIngest ==
  \E device \in Devices, body \in RepeatBodies :
    /\ Len(readings) < MaxReadings
    /\ PostSensor(device, body)
    /\ UNCHANGED <<now, inflight, poll, inbox, devOwner, account, logins>>

RepeatResolve ==
  \E alertId \in DOMAIN alerts :
    /\ alerts[alertId].status = "active"
    /\ ResolveRoute("admin", alertId, << >>)

RepeatTick == Tick(RepeatInstants)

NextRepeat == RepeatIngest \/ RepeatResolve \/ RepeatTick

SpecRepeat == Init /\ [][NextRepeat]_vars

(***************************************************************************)
(* Evaluator runs: one ingestion request, drawn from the accepted values   *)
(* of every field (and some rejected ones), is handled for device d1.      *)
(***************************************************************************)
Opt(values) == {<< >>} \cup {<<v>> : v \in values}

\* the bodies a device may send: every heart rate, every SpO2 and every
\* battery level, each with the other fields absent, nominal or breaching;
\* the values around the thresholds combined; locations; and bodies without
\* a deviceId
EvalBodies(device) ==
  {Body(<<device>>, hr, rest[1], rest[2], fall, rest[3]) :
     hr \in Opt((HeartRateMin - 1)..(HeartRateMax + 1)),
     rest \in { << << >>, << >>, << >> >>, << <<97>>, <<368>>, <<60>> >>,
                << <<92>>, <<390>>, <<3>> >> },
     fall \in BOOLEAN}
  \cup
  {Body(<<device>>, rest[1], spo2, rest[2], fall, rest[3]) :
     spo2 \in Opt((SpO2Min - 1)..(SpO2Max + 1)),
     rest \in { << << >>, << >>, << >> >>, << <<80>>, <<368>>, <<60>> >>,
                << <<45>>, <<390>>, <<3>> >> },
     fall \in BOOLEAN}
  \cup
  {Body(<<device>>, rest[1], rest[2], rest[3], fall, batt) :
     batt \in Opt((BatteryMin - 1)..(BatteryMax + 1)),
     rest \in { << << >>, << >>, << >> >>, << <<80>>, <<97>>, <<368>> >>,
                << <<45>>, <<92>>, <<390>> >> },
     fall \in BOOLEAN}
  \cup
  {Body(<<device>>, hr, spo2, temp, fall, batt) :
     hr \in Opt({49, 50, 120, 121, 200}),
     spo2 \in Opt({94, 95}),
     temp \in Opt({299, 300, 349, 350, 354, 355, 385, 386, 400, 401, 450, 451}),
     fall \in BOOLEAN,
     batt \in Opt({3, 14, 15})}
  \cup
  {At(Body(<<device>>, hr, << >>, temp, FALSE, << >>), lat, lon) :
     hr \in Opt({45, 80, 301}), temp \in Opt({368, 451}),
     lat \in Opt({LatitudeMin - 1, LatitudeMin, 0, LatitudeMax, LatitudeMax + 1}),
     lon \in Opt({LongitudeMin - 1, LongitudeMin, 0, LongitudeMax,
                  LongitudeMax + 1})}
  \cup
  {Body(<< >>, hr, << >>, << >>, FALSE, batt) :
     hr \in Opt({45, 80, 301}), batt \in Opt({3, 60})}

InitEval ==
  /\ now = 0
  /\ alerts = << >>
  /\ readings = << >>
  /\ devStatus = [d \in Devices |->
                    [lastSeen |-> << >>, isOnline |-> FALSE,
                     batteryLevel |-> << >>, location |-> << >>]]
  /\ resp = [op |-> "none", code |-> 0, n |-> 0]
  /\ inflight = [p \in 1..MaxInflight |-> Idle]
  /\ poll = << >>
  /\ devOwner = [d \in Devices |-> RegisteredOwner]
  /\ account = NewAccount
  /\ logins = << >>
  /\ events = << >>
  /\ inbox \in {<<body>> : body \in EvalBodies("d1")}

HandleInbox ==
  /\ inbox # << >>
  /\ PostSensor("d1", inbox[1])
  /\ inbox' = << >>
  /\ UNCHANGED <<now, inflight, poll, devOwner, account, logins>>

NextEval == HandleInbox

SpecEval == InitEval /\ [][NextEval]_vars

(***************************************************************************)
(* Ingestion with a failing store: one request, handled to its end or to   *)
(* the await that throws.                                                  *)
(***************************************************************************)
FaultBodies ==
  {Body(dev, hr, spo2, << >>, fall, batt) :
     dev \in Opt({"d1"}), hr \in Opt({45, 80, 200, 301}),
     spo2 \in Opt({85, 97}), fall \in BOOLEAN, batt \in Opt({3, 60})}

FailPoints == 1..7

InitFaults ==
  /\ now = 0
  /\ alerts = << >>
  /\ readings = << >>
  /\ devStatus = [d \in Devices |->
                    [lastSeen |-> << >>, isOnline |-> FALSE,
                     batteryLevel |-> << >>, location |-> << >>]]
  /\ resp = [op |-> "none", code |-> 0, n |-> 0]
  /\ inflight = [p \in 1..MaxInflight |-> Idle]
  /\ poll = << >>
  /\ devOwner = [d \in Devices |-> RegisteredOwner]
  /\ account = NewAccount
  /\ logins = << >>
  /\ events = << >>
  /\ inbox \in {<<body>> : body \in FaultBodies}

HandleInboxThrows ==
  /\ inbox # << >>
  /\ \E failAt \in FailPoints : PostSensorThrows("d1", inbox[1], failAt)
  /\ inbox' = << >>
  /\ UNCHANGED <<now, inflight, poll, devOwner, account, logins>>

NextFaults == HandleInbox \/ HandleInboxThrows

SpecFaults == InitFaults /\ [][NextFaults]_vars

(***************************************************************************)
(* Claims about the lifecycle routes, requests handled one at a time.      *)
(***************************************************************************)
WholeSeconds(r, ms) == r * MsPerSecond <= ms /\ ms < (r + 1) * MsPerSecond

\* C1: an acknowledge request by a user with access, on an alert whose
\* stored status is active, sets status acknowledged and records the actor,
\* the time and responseTime = whole seconds since creation; on an alert that
\* is not active it is answered 400 (state conflict) and leaves the alert as
\* it was.
C1_AcknowledgeOnlyFromActive ==
  [][\A user \in Users, alertId \in AlertIds, notes \in NotesInputs :
       (/\ AcknowledgeRoute(user, alertId, notes)
        /\ alertId \in DOMAIN alerts
        /\ HasAccess(user, alerts[alertId]))
       => IF alerts[alertId].status = "active"
          THEN /\ resp'.code = 200
               /\ alerts'[alertId].status = "acknowledged"
               /\ alerts'[alertId].acknowledgedBy = <<user>>
               /\ alerts'[alertId].acknowledgedAt = <<now>>
               /\ Len(alerts'[alertId].responseTime) = 1
               /\ WholeSeconds(alerts'[alertId].responseTime[1],
                               now - alerts[alertId].createdAt)
          ELSE /\ resp'.code = 400
               /\ alerts' = alerts]_vars

\* a second acknowledge was refused, on an alert acknowledged 2.7 s (or 2.0 s)
\* after its creation
C1_Witness ==
  /\ resp.op = "acknowledge"
  /\ resp.code = 400
  /\ \E i \in DOMAIN alerts :
       /\ alerts[i].status = "acknowledged"
       /\ alerts[i].responseTime = <<2>>

\* C2 (as claimed): once an alert is resolved or false_positive, no request
\* changes its status.
C2_TerminalStatusKept ==
  [][\A i \in DOMAIN alerts :
       alerts[i].status \in {"resolved", "false_positive"}
       => alerts'[i].status = alerts[i].status]_vars

\* C4 (as claimed): acknowledgedAt and resolvedAt, once set, never change.
C4_TimestampsWriteOnce ==
  [][\A i \in DOMAIN alerts :
       /\ alerts[i].acknowledgedAt # << >>
            => alerts'[i].acknowledgedAt = alerts[i].acknowledgedAt
       /\ alerts[i].resolvedAt # << >>
            => alerts'[i].resolvedAt = alerts[i].resolvedAt]_vars

\* C5: a resolve request by a user with access, on an alert that is active or
\* acknowledged, is answered 200 and leaves the alert resolved, with the
\* actor and the time recorded; no prior acknowledge is needed.
C5_ResolveAlwaysSucceeds ==
  [][\A user \in Users, alertId \in AlertIds, notes \in NotesInputs :
       (/\ ResolveRoute(user, alertId, notes)
        /\ alertId \in DOMAIN alerts
        /\ HasAccess(user, alerts[alertId])
        /\ alerts[alertId].status \in {"active", "acknowledged"})
       => /\ resp'.code = 200
          /\ alerts'[alertId].status = "resolved"
          /\ alerts'[alertId].resolvedBy = <<user>>
          /\ alerts'[alertId].resolvedAt = <<now>>]_vars

\* an alert resolved with no acknowledge before
C5_Witness ==
  /\ resp.op = "resolve"
  /\ resp.code = 200
  /\ \E i \in DOMAIN alerts :
       /\ alerts[i].status = "resolved"
       /\ alerts[i].acknowledgedAt = << >>
       /\ alerts[i].resolvedBy = <<"u1">>

(***************************************************************************)
(* Claims about escalation, checked with the poller (SpecEscalation).      *)
(***************************************************************************)
\* C6: the escalation level of every alert the recorder created is at least
\* 1 and at most its maxEscalationLevel, which is 3 for emergency, critical
\* and warning alerts and 2 for the others, however often escalate() is
\* called.
C6_LevelWithinMax ==
  \A i \in DOMAIN alerts :
    /\ alerts[i].level >= 1
    /\ alerts[i].level <= alerts[i].maxEscalationLevel
    /\ alerts[i].maxEscalationLevel =
         IF alerts[i].severity \in {"emergency", "critical", "warning"}
         THEN 3 ELSE 2

\* an alert escalated up to its maximum (where escalate() can be called again)
C6_Witness ==
  \E i \in DOMAIN alerts :
    /\ alerts[i].level = alerts[i].maxEscalationLevel
    /\ alerts[i].escalatedAt # << >>

\* C7 (as claimed): escalate() changes level and escalatedAt only on an
\* active alert below its maximum, where it adds exactly 1 and records the
\* time.
C7_EscalateOnlyWhileActive ==
  [][\A alertId \in AlertIds :
       EscalateCall(alertId)
       => IF alerts[alertId].status = "active"
             /\ alerts[alertId].level < alerts[alertId].maxEscalationLevel
          THEN /\ alerts'[alertId].level = alerts[alertId].level + 1
               /\ alerts'[alertId].escalatedAt = <<now>>
          ELSE /\ alerts'[alertId].level = alerts[alertId].level
               /\ alerts'[alertId].escalatedAt = alerts[alertId].escalatedAt
    ]_vars

\* C8: needsEscalation() returns true exactly when the alert is active, it
\* has a rule for the level after its own, and the whole minutes since its
\* creation have reached that rule's threshold.
C8_NeedsEscalationExactly ==
  [][\A alertId \in AlertIds :
       NeedsEscalationCall(alertId)
       => LET a == alerts[alertId]
          IN poll'[1].result =
               (/\ a.status = "active"
                /\ \E k \in DOMAIN a.escalationRules :
                     /\ a.escalationRules[k][1] = a.level + 1
                     /\ now - a.createdAt >= a.escalationRules[k][2] * MsPerMinute)
    ]_vars

\* needsEscalation() has answered false for an alert an hour old that had
\* been resolved before the call
C8_Witness ==
  /\ poll # << >>
  /\ poll[1].result = FALSE
  /\ poll[1].alertId \in DOMAIN alerts
  /\ alerts[poll[1].alertId].status = "resolved"
  /\ alerts[poll[1].alertId].level = 1
  /\ alerts[poll[1].alertId].resolvedAt[1] < poll[1].at
  /\ poll[1].at - alerts[poll[1].alertId].createdAt >= 60 * MsPerMinute

(***************************************************************************)
(* Claims about interleaved requests (SpecConcurrent).                     *)
(***************************************************************************)
\* C3: an alert that has left status active never has status active again,
\* under every interleaving of acknowledge, resolve, markAsFalsePositive and
\* escalate.
C3_NeverActiveAgain ==
  [][\A i \in DOMAIN alerts :
       alerts[i].status # "active" => alerts'[i].status # "active"]_vars

\* an escalate() that had loaded the alert while it was active has saved
\* after the alert was resolved
C3_Witness ==
  \E i \in DOMAIN alerts :
    /\ alerts[i].status = "resolved"
    /\ alerts[i].level = 2
    /\ alerts[i].escalatedAt # << >>
    /\ alerts[i].resolvedAt[1] < alerts[i].escalatedAt[1]

(***************************************************************************)
(* Claims about the evaluator (SpecEval).  The request has been handled    *)
(* and accepted when a reading is stored.                                  *)
(***************************************************************************)
AbsentOrWithin(opt, lo, hi) == opt = << >> \/ (lo <= opt[1] /\ opt[1] <= hi)

\* C9: a reading whose heart rate, SpO2, temperature and battery are each
\* absent or nominal, and whose fall flag is not set, yields no
\* classification, and its ingestion creates no alert.
C9_NominalReadingNoAlert ==
  \A k \in DOMAIN readings :
    (/\ AbsentOrWithin(readings[k].heartRate, 50, 120)
     /\ AbsentOrWithin(readings[k].spO2, 95, 100)
     /\ AbsentOrWithin(readings[k].bodyTemperature, 355, 385)
     /\ AbsentOrWithin(readings[k].batteryLevel, 15, 100)
     /\ ~readings[k].fallDetected)
    => /\ \A i \in DOMAIN alerts : alerts[i].sensorData # k
       /\ (resp.op = "sensor" /\ k = Len(readings))
            => (resp.code = 201 /\ resp.n = 0)

\* a reading with all four values present and at the edge of nominal was
\* accepted
C9_Witness ==
  /\ resp.op = "sensor"
  /\ resp.code = 201
  /\ Len(readings) = 1
  /\ readings[1].heartRate = <<120>>
  /\ readings[1].spO2 = <<95>>
  /\ readings[1].bodyTemperature = <<355>>
  /\ readings[1].batteryLevel = <<15>>
  /\ ~readings[1].fallDetected

\* C10 (as claimed): for every accepted reading with a heart rate, over
\* 0..300, there is a heart_rate_abnormal alert iff the value is < 50 or
\* > 120, and its severity is critical iff the value is < 40 or > 140.
C10_HeartRateRule ==
  \A k \in DOMAIN readings :
    readings[k].heartRate # << >>
    => LET v == readings[k].heartRate[1]
           hits == {i \in DOMAIN alerts :
                      /\ alerts[i].sensorData = k
                      /\ alerts[i].type = "heart_rate_abnormal"}
       IN /\ (hits # {}) <=> (v < 50 \/ v > 120)
          /\ \A i \in hits :
               alerts[i].severity =
                 IF v < 40 \/ v > 140 THEN "critical" ELSE "warning"

\* the alerts of reading k that have the given type
AlertsOfType(k, type) ==
  {i \in DOMAIN alerts : alerts[i].sensorData = k /\ alerts[i].type = type}

\* C11 (as claimed): for every accepted reading with an SpO2 value, over
\* 0..100, there is a spo2_low alert iff the value is < 95, and its severity
\* is critical if the value is < 90 and warning otherwise.
C11_SpO2Rule ==
  \A k \in DOMAIN readings :
    readings[k].spO2 # << >>
    => LET v == readings[k].spO2[1]
           hits == AlertsOfType(k, "spo2_low")
       IN /\ (hits # {}) <=> (v < 95)
          /\ \A i \in hits :
               alerts[i].severity = IF v < 90 THEN "critical" ELSE "warning"

\* C12 (as claimed): for every accepted reading with a battery level, over
\* 0..100, there is a battery_low alert iff the level is < 10, and its
\* severity is critical if the level is < 5 and warning otherwise.
C12_BatteryRule ==
  \A k \in DOMAIN readings :
    readings[k].batteryLevel # << >>
    => LET v == readings[k].batteryLevel[1]
           hits == AlertsOfType(k, "battery_low")
       IN /\ (hits # {}) <=> (v < 10)
          /\ \A i \in hits :
               alerts[i].severity = IF v < 5 THEN "critical" ELSE "warning"

\* C13: for every accepted reading whose fall flag is set, the evaluator
\* returns exactly one fall_detected classification, of severity critical,
\* whatever the other fields are (and ingestion stores exactly one such
\* alert); when the other fields are absent or nominal it is the only one.
C13_FallAlwaysCritical ==
  \A k \in DOMAIN readings :
    readings[k].fallDetected
    => LET e == checkEmergencyConditions(readings[k])
           falls == {i \in DOMAIN e : e[i].type = "fall_detected"}
       IN /\ Cardinality(falls) = 1
          /\ \A i \in falls : e[i].severity = "critical"
          /\ Cardinality(AlertsOfType(k, "fall_detected")) = 1
          /\ \A i \in AlertsOfType(k, "fall_detected") :
               alerts[i].severity = "critical"
          /\ (/\ AbsentOrWithin(readings[k].heartRate, 50, 120)
              /\ AbsentOrWithin(readings[k].spO2, 95, 100)
              /\ AbsentOrWithin(readings[k].bodyTemperature, 355, 385)
              /\ AbsentOrWithin(readings[k].batteryLevel, 15, 100))
             => (Len(e) = 1 /\ resp.n = 1)

\* a fall reported with every other value present and nominal
C13_Witness ==
  /\ resp.op = "sensor"
  /\ resp.code = 201
  /\ resp.n = 1
  /\ Len(readings) = 1
  /\ readings[1].fallDetected
  /\ readings[1].heartRate = <<80>>
  /\ readings[1].spO2 = <<97>>
  /\ readings[1].bodyTemperature = <<368>>
  /\ readings[1].batteryLevel = <<60>>
  /\ alerts[1].type = "fall_detected"

\* the reading with only the fields one rule looks at
Only(doc, rule) ==
  [doc EXCEPT
     !.heartRate = IF rule = "heart_rate_abnormal" THEN @ ELSE << >>,
     !.spO2 = IF rule = "spo2_low" THEN @ ELSE << >>,
     !.bodyTemperature = IF rule = "temperature_abnormal" THEN @ ELSE << >>,
     !.fallDetected = IF rule = "fall_detected" THEN @ ELSE FALSE,
     !.batteryLevel = IF rule = "battery_low" THEN @ ELSE << >>]

RuleTypes ==
  {"heart_rate_abnormal", "spo2_low", "temperature_abnormal",
   "fall_detected", "battery_low"}

C15_DeviceThresholds ==
  \A k \in DOMAIN readings :
    LET r == readings[k]
        thresholds == AlertThresholds(r.deviceId)
    IN /\ r.heartRate # << >>
            => ((AlertsOfType(k, "heart_rate_abnormal") # {})
                 <=> (r.heartRate[1] < thresholds.heartRate.min
                      \/ r.heartRate[1] > thresholds.heartRate.max))
       /\ r.spO2 # << >>
            => ((AlertsOfType(k, "spo2_low") # {})
                 <=> (r.spO2[1] < thresholds.spO2.min))
       /\ r.bodyTemperature # << >>
            => ((AlertsOfType(k, "temperature_abnormal") # {})
                 <=> (r.bodyTemperature[1] < thresholds.temperature.min
                      \/ r.bodyTemperature[1] > thresholds.temperature.max))

(***************************************************************************)
(* Claims about the alerts ingestion creates, with later saves by the      *)
(* routes and the poller (SpecEscalation).                                 *)
(***************************************************************************)
\* C16: every alert ingestion persists starts with status active and level
\* 1; its escalation rules and maximum level follow from its severity alone
\* (emergency (1,0),(2,2),(3,5) max 3; critical (1,0),(2,5),(3,15) max 3;
\* warning (1,0),(2,15),(3,60) max 3; any other (1,0),(2,60) max 2), as the
\* first save seeds them, and no later save of the alert changes them.
C16_RulesSeededBySeverity ==
  [][LET Rules(severity) ==
           CASE severity = "emergency" -> << <<1, 0>>, <<2, 2>>, <<3, 5>> >>
             [] severity = "critical" -> << <<1, 0>>, <<2, 5>>, <<3, 15>> >>
             [] severity = "warning" -> << <<1, 0>>, <<2, 15>>, <<3, 60>> >>
             [] OTHER -> << <<1, 0>>, <<2, 60>> >>
         MaxLevel(severity) ==
           IF severity \in {"emergency", "critical", "warning"} THEN 3 ELSE 2
     IN /\ \A severity \in {"info", "warning", "critical", "emergency"} :
             /\ preSaveRules(severity) = Rules(severity)
             /\ preSaveMaxLevel(severity) = MaxLevel(severity)
        /\ \A i \in DOMAIN alerts' :
             /\ alerts'[i].escalationRules = Rules(alerts'[i].severity)
             /\ alerts'[i].maxEscalationLevel = MaxLevel(alerts'[i].severity)
        /\ \A i \in (DOMAIN alerts') \ (DOMAIN alerts) :
             /\ alerts'[i].status = "active"
             /\ alerts'[i].level = 1
        /\ \A i \in DOMAIN alerts :
             /\ alerts'[i].escalationRules = alerts[i].escalationRules
             /\ alerts'[i].maxEscalationLevel = alerts[i].maxEscalationLevel
             /\ alerts'[i].severity = alerts[i].severity]_vars

\* a critical alert, saved again by escalate() and by the resolve route,
\* still has the rules of its first save
C16_Witness ==
  \E i \in DOMAIN alerts :
    /\ alerts[i].severity = "critical"
    /\ alerts[i].status = "resolved"
    /\ alerts[i].level = 2
    /\ alerts[i].escalationRules = << <<1, 0>>, <<2, 5>>, <<3, 15>> >>

(***************************************************************************)
(* Claims about repeated ingestion (SpecRepeat).                           *)
(***************************************************************************)
RECURSIVE FiredUpTo(_)
\* the number of classifications of the first k readings
FiredUpTo(k) ==
  IF k = 0 THEN 0
  ELSE FiredUpTo(k - 1) + Len(checkEmergencyConditions(readings[k]))

\* C17: the alerts stored are, reading by reading, one per rule the reading
\* fires, whether or not the device already has an active alert of that
\* type: their total is the sum over the readings of the rules each fires.
C17_NoDeduplication ==
  /\ Len(alerts) = FiredUpTo(Len(readings))
  /\ \A k \in DOMAIN readings :
       Cardinality({i \in DOMAIN alerts : alerts[i].sensorData = k})
         = Len(checkEmergencyConditions(readings[k]))

\* two readings of d1 with the same low heart rate: two alerts of the same
\* type, both active
C17_Witness ==
  /\ Len(readings) = 2
  /\ readings[1].deviceId = "d1"
  /\ readings[2].deviceId = "d1"
  /\ readings[1].heartRate = <<45>>
  /\ readings[2].heartRate = <<45>>
  /\ Len(alerts) = 2
  /\ alerts[1].type = alerts[2].type
  /\ alerts[1].status = "active"
  /\ alerts[2].status = "active"
  /\ alerts[1].sensorData = 1
  /\ alerts[2].sensorData = 2

(***************************************************************************)
(* Claims about one ingestion request (SpecEval).                          *)
(***************************************************************************)
\* C18: an ingestion request of an authenticated device is answered 400,
\* naming the offending fields, exactly when its deviceId is missing or a
\* field that is present lies outside its bound (heart rate 0..300, SpO2
\* 0..100, temperature 30..45, latitude -90..90, longitude -180..180,
\* battery 0..100); a rejected request leaves readings, alerts and device
\* status as they were, and any other request, whatever it omits, is
\* accepted (201) and its reading stored.
C18_ValidationRejects ==
  [][HandleInbox
     => LET b == inbox[1]
            Outside(opt, lo, hi) == opt # << >> /\ (opt[1] < lo \/ opt[1] > hi)
            offending ==
              (IF b.deviceId = << >> THEN {"deviceId"} ELSE {})
              \cup (IF Outside(b.heartRate, 0, 300)
                    THEN {"heartRate.value"} ELSE {})
              \cup (IF Outside(b.spO2, 0, 100) THEN {"spO2.value"} ELSE {})
              \cup (IF Outside(b.bodyTemperature, 300, 450)
                    THEN {"bodyTemperature.value"} ELSE {})
              \cup (IF Outside(b.latitude, -90, 90)
                    THEN {"location.latitude"} ELSE {})
              \cup (IF Outside(b.longitude, -180, 180)
                    THEN {"location.longitude"} ELSE {})
              \cup (IF Outside(b.batteryLevel, 0, 100)
                    THEN {"device.batteryLevel"} ELSE {})
        IN IF offending # {}
           THEN /\ resp'.code = 400
                /\ resp'.details = offending
                /\ UNCHANGED <<alerts, readings, devStatus>>
           ELSE /\ resp'.code = 201
                /\ Len(readings') = Len(readings) + 1
                /\ devStatus'["d1"].lastSeen = <<now>>]_vars

\* a request with a heart rate of 301 and a latitude of 91 was rejected, and
\* nothing was stored
C18_Witness ==
  /\ resp.op = "sensor"
  /\ resp.code = 400
  /\ resp.details = {"heartRate.value", "location.latitude"}
  /\ readings = << >>
  /\ alerts = << >>
  /\ devStatus["d1"].lastSeen = << >>
  /\ inbox = << >>

(***************************************************************************)
(* Claims about ingestion with a failing store (SpecFaults).               *)
(***************************************************************************)
\* C19: whenever an ingestion request is answered 201, its reading is
\* stored, every alert derived from it is stored, and alertsGenerated is the
\* number of alerts stored for the reading, which is the number of
\* classifications the evaluator returns for it.
C19_CreatedMeansPersisted ==
  [][(inbox # << >> /\ inbox' = << >> /\ resp'.code = 201)
     => LET k == Len(readings')
            stored == {i \in DOMAIN alerts' : alerts'[i].sensorData = k}
        IN /\ k = Len(readings) + 1
           /\ readings'[k].heartRate = inbox[1].heartRate
           /\ readings'[k].spO2 = inbox[1].spO2
           /\ readings'[k].batteryLevel = inbox[1].batteryLevel
           /\ readings'[k].fallDetected = inbox[1].fallDetected
           /\ resp'.n = Cardinality(stored)
           /\ resp'.n = Len(checkEmergencyConditions(readings'[k]))
           /\ {alerts'[i].type : i \in stored}
                = {e.type : e \in {checkEmergencyConditions(readings'[k])[j] :
                     j \in DOMAIN checkEmergencyConditions(readings'[k])}}]_vars

\* a request firing four rules was answered 201 with alertsGenerated 4
C19_Witness ==
  /\ resp.op = "sensor"
  /\ resp.code = 201
  /\ resp.n = 4
  /\ Len(readings) = 1
  /\ Len(alerts) = 4
  /\ \A i \in DOMAIN alerts : alerts[i].sensorData = 1

(***************************************************************************)
(* Claims about notification (Spec).                                       *)
(***************************************************************************)
\* C20 (as claimed): every alert ingestion has created carries one recorded
\* delivery attempt on each of the channels email, sms, push and webhook,
\* and a channel's sent flag is set only where an attempt was recorded.
C20_AttemptPerChannel ==
  \A i \in DOMAIN alerts :
    \A c \in Channels :
      /\ alerts[i].attempts[c] = 1
      /\ alerts[i].sent[c] => alerts[i].attempts[c] >= 1

(***************************************************************************)
(* Claims about the context snapshot (SpecOwner).                          *)
(***************************************************************************)
\* C21: an alert is created with the owner data of its device as they are
\* then, and afterwards no update of the device's owner record and no
\* lifecycle operation (acknowledge, resolve, markAsFalsePositive,
\* escalate) changes its context, type, severity or value.
C21_ContextIsSnapshot ==
  [][/\ \A i \in DOMAIN alerts :
          /\ i \in DOMAIN alerts'
          /\ alerts'[i].context = alerts[i].context
          /\ alerts'[i].type = alerts[i].type
          /\ alerts'[i].severity = alerts[i].severity
          /\ alerts'[i].value = alerts[i].value
     /\ \A i \in (DOMAIN alerts') \ (DOMAIN alerts) :
          LET owner == devOwner[alerts'[i].deviceId]
              context == alerts'[i].context
          IN /\ context.patientName = owner.fullName
             /\ context.emergencyContact = owner.emergencyContact
             /\ context.medicalHistory = owner.medicalConditions
             /\ Len(context.currentMedications) = Len(owner.medications)
             /\ \A m \in DOMAIN owner.medications :
                  context.currentMedications[m] = owner.medications[m].name
             /\ context.doctorContact = owner.hospitalContact]_vars

\* a resolved alert still shows the patient name, contact and medication of
\* the day it was created, after the owner record was changed in all of them
C21_Witness ==
  \E i \in DOMAIN alerts :
    /\ alerts[i].status = "resolved"
    /\ alerts[i].context.patientName = "Asha Rao"
    /\ alerts[i].context.currentMedications = <<"metformin">>
    /\ devOwner[alerts[i].deviceId].fullName = "Asha Nair"
    /\ devOwner[alerts[i].deviceId].emergencyContact.name = "Meena"
    /\ Len(devOwner[alerts[i].deviceId].medications) = 2

(***************************************************************************)
(* Claims about the alert list (SpecList).                                 *)
(***************************************************************************)
\* C22: a list query with page p >= 1 and limit L >= 1 over the N alerts
\* its filters select returns the alerts at positions (p-1)L+1 .. min(pL, N)
\* of the newest-first order (among alerts of equal createdAt any order
\* counts), with currentPage = p, totalCount = N, totalPages = ceil(N/L),
\* hasPrev iff p > 1, hasNext iff p < totalPages.
C22_Pagination ==
  [][(resp'.op = "list" /\ resp' # resp)
     => LET user == resp'.query.user
            status == resp'.query.status
            severity == resp'.query.severity
            page == resp'.query.page
            limit == resp'.query.limit
            selected ==
              {i \in DOMAIN alerts :
                 /\ user = "admin" \/ alerts[i].deviceId \in UserDevices(user)
                 /\ status = "all" \/ alerts[i].status = status
                 /\ severity = "all" \/ alerts[i].severity = severity}
            N == Cardinality(selected)
            first == (page - 1) * limit + 1
            last == IF page * limit < N THEN page * limit ELSE N
            items == resp'.alerts
            Newer(i) == {j \in selected :
                           alerts[j].createdAt > alerts[i].createdAt}
            NotOlder(i) == {j \in selected :
                              alerts[j].createdAt >= alerts[i].createdAt}
            pages == resp'.pagination.totalPages
        IN /\ page >= 1 /\ limit >= 1
           /\ alerts' = alerts
           /\ Len(items) = (IF last >= first THEN last - first + 1 ELSE 0)
           /\ \A k \in DOMAIN items :
                /\ items[k] \in selected
                /\ Cardinality(Newer(items[k])) <= first + k - 2
                /\ Cardinality(NotOlder(items[k])) >= first + k - 1
           /\ \A k, m \in DOMAIN items :
                /\ (k < m => alerts[items[k]].createdAt
                               >= alerts[items[m]].createdAt)
                /\ (items[k] = items[m] => k = m)
           /\ resp'.pagination.currentPage = page
           /\ resp'.pagination.totalCount = N
           /\ (pages - 1) * limit < N
           /\ N <= pages * limit
           /\ resp'.pagination.hasPrev <=> (page > 1)
           /\ resp'.pagination.hasNext <=> (page < pages)]_vars

\* page 2 of 2, limit 2, of three alerts of which two were created together:
\* the oldest alert alone, with hasPrev and without hasNext
C22_Witness ==
  /\ resp.op = "list"
  /\ Len(alerts) = 3
  /\ resp.pagination.currentPage = 2
  /\ resp.pagination.totalPages = 2
  /\ resp.pagination.totalCount = 3
  /\ resp.pagination.hasPrev
  /\ ~resp.pagination.hasNext
  /\ Len(resp.alerts) = 1
  /\ \A i \in DOMAIN alerts :
       alerts[resp.alerts[1]].createdAt <= alerts[i].createdAt
  /\ \E i, j \in DOMAIN alerts : i # j /\ alerts[i].createdAt = alerts[j].createdAt

(***************************************************************************)
(* Device authentication: POST /sensor behind the apiKey middleware.  One  *)
(* request: the X-API-Key and X-Device-ID headers and the body.            *)
(***************************************************************************)
\* the registered devices' MAC addresses
MacAddress(device) == IF device = "d1" THEN "mac1" ELSE "mac2"

\* req.header('X-Device-ID') || req.body.deviceId
RequestDeviceId(headerId, body) ==
  IF headerId # << >> THEN headerId ELSE body.deviceId

\* Device.findOne({deviceId, macAddress: apiKey})
FindDevice(deviceId, key) ==
  {d \in Devices : d = deviceId /\ MacAddress(d) = key}

\* the status the middleware answers with; 200 means next()
apiKey(key, headerId, body) ==
  IF key = << >> \/ RequestDeviceId(headerId, body) = << >> THEN 400
  ELSE IF FindDevice(RequestDeviceId(headerId, body)[1], key[1]) = {} THEN 401
  ELSE 200

SensorRequest(key, headerId, body) ==
  LET code == apiKey(key, headerId, body)
  IN IF code # 200
     THEN /\ resp' = [op |-> "sensor", code |-> code, n |-> 0]
          /\ events' = << Event("res.status", code) >>
          /\ UNCHANGED <<alerts, readings, devStatus>>
     ELSE \E device \in FindDevice(RequestDeviceId(headerId, body)[1], key[1]) :
            PostSensor(device, body)

ApiKeys == { << >>, <<"mac1">>, <<"mac2">>, <<"mac9">> }

DeviceIdHeaders == { << >>, <<"d1">>, <<"d2">> }

ApiKeyBodies ==
  {Body(dev, hr, << >>, << >>, fall, << >>) :
     dev \in {<< >>, <<"d1">>, <<"d2">>}, hr \in {<<45>>, <<80>>},
     fall \in BOOLEAN}

InitApiKey ==
  /\ now = 0
  /\ alerts = << >>
  /\ readings = << >>
  /\ devStatus = [d \in Devices |->
                    [lastSeen |-> << >>, isOnline |-> FALSE,
                     batteryLevel |-> << >>, location |-> << >>]]
  /\ resp = [op |-> "none", code |-> 0, n |-> 0]
  /\ inflight = [p \in 1..MaxInflight |-> Idle]
  /\ poll = << >>
  /\ devOwner = [d \in Devices |-> RegisteredOwner]
  /\ account = NewAccount
  /\ logins = << >>
  /\ events = << >>
  /\ inbox \in {<< [key |-> key, headerId |-> headerId, body |-> body] >> :
                  key \in ApiKeys, headerId \in DeviceIdHeaders,
                  body \in ApiKeyBodies}

HandleSensorRequest ==
  /\ inbox # << >>
  /\ SensorRequest(inbox[1].key, inbox[1].headerId, inbox[1].body)
  /\ inbox' = << >>
  /\ UNCHANGED <<now, inflight, poll, devOwner, account, logins>>

NextApiKey == HandleSensorRequest

SpecApiKey == InitApiKey /\ [][NextApiKey]_vars

(***************************************************************************)
(* Login and lockout.  One account; a login request reads the user         *)
(* (findOne), waits for the password comparison, then writes: a failure    *)
(* runs incLoginAttempts on the copy it read, a success runs               *)
(* resetLoginAttempts (when the copy has failures) and then saves lastLogin *)
(* and loginCount.  Requests interleave between these awaits.  The rate    *)
(* limiter counts per client address; the requests here are those it lets  *)
(* through.                                                                *)
(***************************************************************************)
MaxLoginAttempts == 5

LockTime == 2 * 60 * MsPerMinute

MaxFailures == 6

MaxLoginCount == 2

Username == "asha"

Password == "secret"

isLocked(user, t) == user.lockUntil # << >> /\ user.lockUntil[1] > t

\* updateOne acts on the stored document; the conditions read the copy
incLoginAttempts(stored, user, t) ==
  IF user.lockUntil # << >> /\ user.lockUntil[1] < t
  THEN [stored EXCEPT !.lockUntil = << >>, !.loginAttempts = 1]
  ELSE IF user.loginAttempts + 1 >= MaxLoginAttempts /\ ~isLocked(user, t)
       THEN [stored EXCEPT !.loginAttempts = @ + 1,
                           !.lockUntil = <<t + LockTime>>]
       ELSE [stored EXCEPT !.loginAttempts = @ + 1]

resetLoginAttempts(stored) ==
  [stored EXCEPT !.loginAttempts = 0, !.lockUntil = << >>]

LoginResponse(code, token) ==
  [op |-> "login", code |-> code, n |-> 0, token |-> token]

Without(seq, i) == SubSeq(seq, 1, i - 1) \o SubSeq(seq, i + 1, Len(seq))

\* validation, findOne, the lock and activity checks
LoginFind(username, password) ==
  /\ Len(logins) < MaxInflight
  /\ account.loginAttempts < MaxFailures
  /\ account.loginCount < MaxLoginCount
  /\ IF username = "" \/ password = ""
     THEN resp' = LoginResponse(400, FALSE) /\ UNCHANGED logins
     ELSE IF username # Username
     THEN resp' = LoginResponse(401, FALSE) /\ UNCHANGED logins
     ELSE IF isLocked(account, now)
     THEN resp' = LoginResponse(423, FALSE) /\ UNCHANGED logins
     ELSE IF ~account.isActive
     THEN resp' = LoginResponse(403, FALSE) /\ UNCHANGED logins
     ELSE /\ logins' = Append(logins, [pc |-> "compare",
                                       password |-> password,
                                       user |-> account])
          /\ UNCHANGED resp
  /\ UNCHANGED <<now, alerts, readings, devStatus, inflight, poll, inbox,
                 devOwner, account, events>>

\* user.save() of the login statistics, then the token
LoginSucceed(i) ==
  /\ account' = [account EXCEPT !.lastLogin = <<now>>,
                                !.loginCount = logins[i].user.loginCount + 1]
  /\ resp' = LoginResponse(200, TRUE)
  /\ logins' = Without(logins, i)

\* after comparePassword
LoginCompare(i) ==
  /\ i \in DOMAIN logins
  /\ logins[i].pc = "compare"
  /\ IF logins[i].password # Password
     THEN /\ account' = incLoginAttempts(account, logins[i].user, now)
          /\ resp' = LoginResponse(401, FALSE)
          /\ logins' = Without(logins, i)
     ELSE IF logins[i].user.loginAttempts > 0
     THEN /\ account' = resetLoginAttempts(account)
          /\ logins' = [logins EXCEPT ![i].pc = "save"]
          /\ UNCHANGED resp
     ELSE LoginSucceed(i)
  /\ UNCHANGED <<now, alerts, readings, devStatus, inflight, poll, inbox,
                 devOwner, events>>

LoginSave(i) ==
  /\ i \in DOMAIN logins
  /\ logins[i].pc = "save"
  /\ LoginSucceed(i)
  /\ UNCHANGED <<now, alerts, readings, devStatus, inflight, poll, inbox,
                 devOwner, events>>

LoginInstants == {60000, 7200000, 7260001}

LoginRequest ==
  \E username \in {Username, "nobody", ""}, password \in {Password, "guess", ""} :
    LoginFind(username, password)

LoginAfterCompare == \E i \in 1..MaxInflight : LoginCompare(i)

LoginAfterReset == \E i \in 1..MaxInflight : LoginSave(i)

LoginTick == Tick(LoginInstants)

NextLogin == LoginRequest \/ LoginAfterCompare \/ LoginAfterReset \/ LoginTick

SpecLogin == Init /\ [][NextLogin]_vars

(***************************************************************************)
(* More claims about interleaved requests (SpecConcurrent).                *)
(***************************************************************************)
\* C23: a lifecycle request that read the alert while it was active
\* succeeds whatever another request has saved since: it is answered 200
\* and the stored status becomes the one it writes, so of an acknowledge
\* and a resolve that both read the active alert, the one saving last
\* decides the final status.
C23_LastWriteWins ==
  [][\A p \in DOMAIN inflight :
       (/\ Finish(p)
        /\ inflight[p].op # "escalate"
        /\ inflight[p].doc.status = "active")
       => /\ resp'.code = 200
          /\ resp'.op = inflight[p].op
          /\ alerts'[inflight[p].alertId].status =
               (CASE inflight[p].op = "acknowledge" -> "acknowledged"
                  [] inflight[p].op = "resolve" -> "resolved"
                  [] OTHER -> "false_positive")]_vars

\* both read the active alert; the resolve saved first, the acknowledge last
C23_Witness ==
  /\ resp.op = "acknowledge"
  /\ resp.code = 200
  /\ \E i \in DOMAIN alerts :
       /\ alerts[i].status = "acknowledged"
       /\ alerts[i].resolvedBy = <<"admin">>
       /\ alerts[i].resolvedAt # << >>
       /\ alerts[i].acknowledgedAt # << >>

\* C25 (as claimed): in every reachable state, interleaved requests
\* included, an active alert has neither acknowledgedAt nor resolvedAt, an
\* acknowledged alert has acknowledgedAt and no resolvedAt, and a resolved
\* or false_positive alert has resolvedAt.
C25_StatusAgreesWithResponse ==
  \A i \in DOMAIN alerts :
    CASE alerts[i].status = "active" ->
           alerts[i].acknowledgedAt = << >> /\ alerts[i].resolvedAt = << >>
      [] alerts[i].status = "acknowledged" ->
           alerts[i].acknowledgedAt # << >> /\ alerts[i].resolvedAt = << >>
      [] OTHER -> alerts[i].resolvedAt # << >>

(***************************************************************************)
(* Claims about the server over hours (SpecLongRun).                       *)
(***************************************************************************)
\* C24: in every state of the server as wired, every alert has escalation
\* level 1 and no escalatedAt, however long it has been active.
C24_NeverEscalated ==
  \A i \in DOMAIN alerts :
    alerts[i].level = 1 /\ alerts[i].escalatedAt = << >>

\* a critical alert an hour old, still active at level 1
C24_Witness ==
  \E i \in DOMAIN alerts :
    /\ alerts[i].status = "active"
    /\ alerts[i].severity = "critical"
    /\ now - alerts[i].createdAt >= 60 * MsPerMinute
    /\ alerts[i].level = 1
    /\ needsEscalation(alerts[i], now)

(***************************************************************************)
(* More claims about ingestion with a failing store (SpecFaults).          *)
(***************************************************************************)
\* C26 (as claimed): an ingestion request that ends with an error response
\* (400 or 500) leaves the device status, the readings and the alerts as
\* they were before the request.
C26_AllOrNothing ==
  [][(inbox # << >> /\ inbox' = << >> /\ resp'.code \in {400, 500})
     => UNCHANGED <<devStatus, readings, alerts>>]_vars

(***************************************************************************)
(* Claims about login and lockout (SpecLogin).                             *)
(***************************************************************************)
\* C27 (as claimed): in every interleaving of login requests on one
\* account, the step that records the fifth failed attempt locks the
\* account for 2 hours; no token is issued while the account is locked;
\* and the account is locked only when 5 failures are recorded.
C27_Lockout ==
  [][/\ (account.loginAttempts < MaxLoginAttempts
          /\ account'.loginAttempts >= MaxLoginAttempts)
         => account'.lockUntil = <<now + LockTime>>
     /\ (\E i \in DOMAIN logins :
           /\ logins[i].password = Password
           /\ LoginCompare(i) \/ LoginSave(i)
           /\ resp'.code = 200)
         => ~isLocked(account, now)
     /\ (account'.lockUntil # << >> /\ account'.lockUntil # account.lockUntil)
         => account'.loginAttempts >= MaxLoginAttempts]_vars

C29_AuthenticatedDeviceId ==
  [][(inbox # << >> /\ inbox' = << >>)
     => LET rq == inbox[1]
            id == RequestDeviceId(rq.headerId, rq.body)
            matches == /\ rq.key # << >>
                       /\ id # << >>
                       /\ id[1] \in Devices
                       /\ MacAddress(id[1]) = rq.key[1]
        IN IF matches
           THEN /\ \A i \in DOMAIN readings' :
                     /\ readings'[i].deviceId = id[1]
                     /\ MacAddress(readings'[i].deviceId) = rq.key[1]
                /\ \A i \in DOMAIN alerts' :
                     /\ alerts'[i].deviceId = id[1]
                     /\ alerts'[i].deviceId
                          = readings'[alerts'[i].sensorData].deviceId
           ELSE /\ resp'.code \in {400, 401}
                /\ UNCHANGED <<readings, alerts, devStatus>>]_vars

\* device d1 authenticated by its key: the reading and its two alerts are
\* stored under d1, and d2 is untouched
C29_Witness ==
  /\ resp.code = 201
  /\ Len(readings) = 1
  /\ readings[1].deviceId = "d1"
  /\ Len(alerts) = 2
  /\ \A i \in DOMAIN alerts : alerts[i].deviceId = "d1"
  /\ devStatus["d1"].isOnline
  /\ ~devStatus["d2"].isOnline

(***************************************************************************)
(* Claims about the order of events within one ingestion (SpecFaults).     *)
(***************************************************************************)
\* where an event stands in the log of the request, 0 when it is not there
Position(what, id) ==
  IF \E k \in DOMAIN events : events[k] = Event(what, id)
  THEN CHOOSE k \in DOMAIN events :
         /\ events[k] = Event(what, id)
         /\ \A j \in 1..(k - 1) : events[j] # Event(what, id)
  ELSE 0

Happened(what, id) == Position(what, id) > 0

Before(what1, id1, what2, id2) ==
  Happened(what1, id1) /\ Position(what1, id1) < Position(what2, id2)

\* C30: within one ingestion request the reading is persisted before any
\* of its alerts; each alert is persisted before it is broadcast and
\* before its notification is dispatched; the alerts are handled one
\* after another in the evaluator's order; and the sensor-data broadcast
\* and the 201 response come only after every alert of the reading has
\* been persisted.
C30_EventOrder ==
  /\ \A a \in DOMAIN events :
       /\ Happened("alert.save", a)
            => Before("sensorData.save", 1, "alert.save", a)
       /\ Happened("broadcastAlert", a)
            => Before("alert.save", a, "broadcastAlert", a)
       /\ Happened("sendAlertNotifications", a)
            => Before("alert.save", a, "sendAlertNotifications", a)
       /\ (a > 1 /\ Happened("alert.save", a))
            => /\ Before("alert.save", a - 1, "alert.save", a)
               /\ Before("broadcastAlert", a - 1, "alert.save", a)
               /\ Before("sendAlertNotifications", a - 1, "alert.save", a)
  /\ \A a \in DOMAIN alerts :
       /\ Happened("alert.save", a)
       /\ alerts[a].type = checkEmergencyConditions(readings[1])[a].type
  /\ \A last \in {Event("broadcastSensorData", 1), Event("res.status", 201)} :
       Happened(last.what, last.id)
       => /\ Len(alerts) = Len(checkEmergencyConditions(readings[1]))
          /\ \A a \in DOMAIN alerts :
               Before("alert.save", a, last.what, last.id)

\* a request answered 201 after three alerts were saved in turn
C30_Witness ==
  /\ resp.code = 201
  /\ Len(alerts) = 3
  /\ Happened("res.status", 201)
  /\ Before("sendAlertNotifications", 2, "alert.save", 3)
  /\ Before("sendAlertNotifications", 3, "broadcastSensorData", 1)

====
